---- MODULE Spec2Model ----
(***************************************************************************)
(* Model of the blacksmith backend (src/backend/index.js, algo.js): the    *)
(* /update orchestrator with its cancellable pipeline, and the per-language *)
(* git checkpoint store (/approve, /reject, /save-file).                    *)
(*                                                                         *)
(* Node's run-to-completion scheduling is modelled explicitly: every       *)
(* action is the synchronous segment that runs between two I/O awaits, and *)
(* promise reactions are queued in `microtasks` and drained before any     *)
(* other action may run.                                                   *)
(***************************************************************************)
EXTENDS Integers, Sequences, FiniteSets, TLC

\* ------------------------------------------------------------------ bounds
NumLanguages == 2      \* length of the modelled prefix of LANGUAGES
MaxRuns == 3           \* number of /update requests issued
MaxCommits == 2        \* approve is not offered beyond this history length
MaxApiCalls == 2       \* number of approve / reject / save-file requests
StoreRuns == 1         \* number of /update requests issued in SpecStore
FaultRuns == 2         \* number of /update requests issued in SpecFault

\* ------------------------------------------------------- program constants
\* LANGUAGES (index.js:52-63), restricted to a sub-list in declaration order
LanguagePool == <<"javascript", "java", "ruby", "go">>
LANGUAGES == SubSeq(LanguagePool, 1, NumLanguages)
Targets == {LANGUAGES[k] : k \in 1..NumLanguages}
English == "english"
Workspaces == Targets \cup {English}

\* File names that occur: the generated file, and the files algo returns on
\* failure (algo.js:87-90, 96-99, 109-112)
GenFiles == {"a.txt"}
ErrFiles == {"error.txt", "fallback.txt", "raw_response.txt"}
Files == GenFiles \cup ErrFiles

\* File contents.  0 is "no such file"; a positive number r is content first
\* produced by the generation call of run r; negative numbers are the other
\* producers.
Absent == 0
ErrContent == 0 - 1       \* text of the error / fallback files
UserContent == 0 - 2      \* content posted to /save-file
DefaultContent == 0 - 3   \* content copied from default-files

EmptyTree == [f \in Files |-> Absent]
Runs == 1..MaxRuns
NoRun == 0

\* progress values are held in thousandths
Scale == 1000

VARIABLES
    currentUpdateController,  \* index.js:39  run id of the controller, or NoRun
    currentUpdatePromise,     \* index.js:40  run id of the promise, or NoRun
    updateProgress,           \* index.js:43
    run,                      \* per /update request: its controller and pipeline
    waiters,                  \* per promise: handlers suspended in `await` on it
    microtasks,               \* pending promise reaction jobs, in order
    nextRun,                  \* id the next /update request gets
    ws,                       \* the workspaces (directory + git repository)
    outside,                  \* paths written outside every workspace
    lastApi,                  \* the approve/reject/save-file call just served
    apiCalls,                 \* number of such calls served
    statusCall                \* a getLanguageGitStatus call: git's output, the result

vars == <<currentUpdateController, currentUpdatePromise, updateProgress, run,
          waiters, microtasks, nextRun, ws, outside, lastApi, apiCalls,
          statusCall>>

\* ---------------------------------------------------------------- git model
\* A workspace: exists = the directory exists, git = it has a .git,
\* head = tree of the last commit, commits = length of the history,
\* index = the stage, tree = the working tree.

NoWorkspace ==
    [exists |-> FALSE, git |-> FALSE, head |-> EmptyTree, commits |-> 0,
     index |-> EmptyTree, tree |-> EmptyTree]

Tracked(w) == {f \in Files : w.index[f] # Absent}

\* Every git command yields [ok, w]: ok = FALSE is a non-zero exit status,
\* which execPromise turns into a rejection.
Fail(w) == [ok |-> FALSE, w |-> w]
Ok(w) == [ok |-> TRUE, w |-> w]

\* `git checkout -- .` : restore every tracked path from the index; fails when
\* the pathspec matches nothing (no tracked file).
GitCheckoutAll(w) ==
    IF ~w.git \/ Tracked(w) = {} THEN Fail(w)
    ELSE Ok([w EXCEPT !.tree = [f \in Files |->
                 IF w.index[f] # Absent THEN w.index[f] ELSE w.tree[f]]])

\* `git clean -fd` : remove untracked files.
GitClean(w) ==
    IF ~w.git THEN Fail(w)
    ELSE Ok([w EXCEPT !.tree = [f \in Files |->
                 IF w.index[f] # Absent THEN w.tree[f] ELSE Absent]])

\* `git add -u` instead: only paths already tracked are staged
GitAddTracked(w) ==
    IF ~w.git THEN Fail(w)
    ELSE Ok([w EXCEPT !.index = [f \in Files |->
                 IF w.index[f] # Absent THEN w.tree[f] ELSE Absent]])

\* `git add -A`
GitAddAll(w) ==
    IF ~w.git THEN Fail(w) ELSE Ok([w EXCEPT !.index = w.tree])

\* `git diff --cached --name-only` : the names that differ between index and
\* HEAD (HEAD of an unborn branch is the empty tree).
StagedNames(w) == {f \in Files : w.index[f] # w.head[f]}

\* `git commit -m ...` : fails when nothing is staged.
GitCommit(w) ==
    IF ~w.git \/ StagedNames(w) = {} THEN Fail(w)
    ELSE Ok([w EXCEPT !.head = w.index, !.commits = w.commits + 1])

\* `git reset HEAD` : fails on a repository without commits.
GitResetHead(w) ==
    IF ~w.git \/ w.commits = 0 THEN Fail(w)
    ELSE Ok([w EXCEPT !.index = w.head])

\* try { checkout; clean } catch {}   (index.js:285-292, 489-495)
CheckoutThenClean(w) ==
    LET c == GitCheckoutAll(w) IN
    IF c.ok THEN GitClean(c.w).w ELSE w

\* index.js:66-86
ensureGitRepo(w) ==
    IF w.git THEN w
    ELSE LET init == [w EXCEPT !.git = TRUE, !.index = EmptyTree,
                               !.head = EmptyTree, !.commits = 0]
             added == GitAddAll(init).w
             commit == GitCommit(added)
         IN commit.w

\* index.js:88-128.  D is the set of workspaces for which default-files holds
\* a file; it is copied only when the files folder does not exist yet.
filesFolderExists(s) == \E w \in Workspaces : s[w].exists

\* The default-files folders considered: none, or one with a file for the
\* specification and for the first target.
DefaultFiles == {{}, {English, LANGUAGES[1]}}

ensureFilesFolder(s, D) ==
    LET copied == [w \in Workspaces |->
                    IF ~filesFolderExists(s) /\ w \in D
                    THEN [s[w] EXCEPT !.exists = TRUE,
                                      !.tree = [EmptyTree EXCEPT !["a.txt"] = DefaultContent]]
                    ELSE s[w]]
    IN [w \in Workspaces |-> ensureGitRepo([copied[w] EXCEPT !.exists = TRUE])]


\* ------------------------------------------------------- generation (algo.js)
\* What algo(language, englishString, oldLanguageString) can resolve to for
\* run r, given the files read from the target (algo.js:9-114).  It never
\* rejects: every failure path returns an object of error files.
NewFiles(S, r) == [f \in Files |-> IF f \in S THEN r ELSE Absent]

\* algo.js:103  a valid parsed structure: some new files, or the existing
\* files returned unchanged
AlgoSuccess(r, existing) ==
    {NewFiles(S, r) : S \in (SUBSET GenFiles) \ {{}}}
    \cup (IF existing # EmptyTree THEN {existing} ELSE {})

\* algo.js:109-112  the API call threw
AlgoApiError ==
    [f \in Files |-> IF f \in {"error.txt", "fallback.txt"} THEN ErrContent ELSE Absent]

\* algo.js:87-90, 96-99  unparsable JSON, or an invalid file structure
AlgoBadOutput ==
    [f \in Files |-> IF f \in {"error.txt", "raw_response.txt"} THEN ErrContent ELSE Absent]

AlgoFailure == {AlgoApiError, AlgoBadOutput}

\* The ways an awaited call can end: resolved with an object of files,
\* resolved with no object, or rejected.  algo only ever does the first.
Resolved(files) == [kind |-> "resolved", files |-> files]
ResolvedNull == [kind |-> "null", files |-> EmptyTree]
Rejected == [kind |-> "rejected", files |-> EmptyTree]

\* algo without the catch of algo.js:105-113: an API error rejects
algoUncaught(r, existing) ==
    {Resolved(files) : files \in AlgoSuccess(r, existing) \cup {AlgoBadOutput}}
    \cup {Rejected}

algo(r, existing) ==
    {Resolved(files) : files \in AlgoSuccess(r, existing) \cup AlgoFailure}

\* index.js:356  `result && typeof result === 'object'`
Usable(result) == result.kind = "resolved"

\* index.js:359-363  write every returned file into the target's folder
WriteResult(w, result) ==
    [w EXCEPT !.tree = [f \in Files |->
        IF result[f] # Absent THEN result[f] ELSE w.tree[f]]]

\* ------------------------------------------------------------------ progress
\* index.js:43-49
InitialProgress ==
    [progress |-> 0, isRunning |-> FALSE, startTime |-> 0, error |-> "null"]

\* index.js:178-184 and 201-207; Date.now() is a reading later than the last
ResetProgress(p) ==
    [progress |-> 0, isRunning |-> TRUE, startTime |-> p.startTime + 1,
     error |-> "null"]

\* the values processUpdate assigns to updateProgress.progress
PrepProgress(i) == 100 + (100 * i) \div NumLanguages        \* index.js:282
LangProgress(i) == 250 + (550 * i) \div NumLanguages        \* index.js:327-329
StageProgress(i) == 850 + (100 * i) \div NumLanguages       \* index.js:399

\* ----------------------------------------------------------------- pipeline
\* The state of one /update request: aborted is its AbortController's signal;
\* pc is the await its processUpdate call is suspended at; i is the 1-based
\* loop index; processed is processedLanguages; existing and result are
\* languageFiles and result of the current iteration; failed, wrote, staged
\* and touched are history: the targets whose generation failed, the
\* <<target, file, content>> triples written, whether the staging block was
\* entered, and the targets an approve, reject or save-file request acted on
\* while the call was in flight.  abortedBy is the request that aborted it,
\* and historyAt the length of a target's history when its files were written.
\* gitFailed: a git command of the staging block (379-433) has failed;
\* specTouched: a save-file request wrote to the specification after the
\* call had staged it (390).
IdleRun ==
    [aborted |-> FALSE, abortedBy |-> NoRun, pc |-> "idle", i |-> 0, processed |-> <<>>,
     existing |-> EmptyTree, result |-> EmptyTree, outcome |-> "pending",
     failed |-> {}, wrote |-> {}, staged |-> FALSE, touched |-> {},
     historyAt |-> [t \in Targets |-> 0],
     gitFailed |-> FALSE, specTouched |-> FALSE, englishFiles |-> EmptyTree,
     abortedAt |-> "idle", englishGiven |-> {}, setupFailed |-> FALSE]

InFlight(r) == run[r].pc \notin {"idle", "done"}

NoApi == [op |-> "none"]

initial == [stagedFiles |-> {}, hasStagedChanges |-> FALSE, hasUnstagedChanges |-> FALSE]

NoStatusCall ==
    [exists |-> FALSE, files |-> <<>>, stdout |-> <<>>, done |-> FALSE, result |-> initial]

Init ==
    /\ currentUpdateController = NoRun
    /\ currentUpdatePromise = NoRun
    /\ updateProgress = InitialProgress
    /\ run = [r \in Runs |-> IdleRun]
    /\ waiters = [r \in Runs |-> <<>>]
    /\ microtasks = <<>>
    /\ nextRun = 1
    /\ ws = [w \in Workspaces |-> NoWorkspace]
    /\ outside = {}
    /\ lastApi = NoApi
    /\ apiCalls = 0
    /\ statusCall = NoStatusCall

\* The promise of run r settles: its reactions are queued in the order they
\* were registered, the .then of index.js:219 first, then the awaiting
\* /update handlers (index.js:189).
Reactions(r) ==
    <<[job |-> "then", r |-> r]>> \o
    [k \in 1..Len(waiters[r]) |-> [job |-> "resume", r |-> waiters[r][k]]]

\* index.js:486-497
revertProcessedLanguages(s, processed) ==
    [w \in Workspaces |->
        IF \E k \in 1..Len(processed) : processed[k] = w
        THEN CheckoutThenClean(s[w]) ELSE s[w]]


\* ------------------------------------------------------ processUpdate steps
\* Variables no pipeline step touches.
PipelineFrame ==
    /\ lastApi' = NoApi
    /\ UNCHANGED <<currentUpdateController, currentUpdatePromise, waiters,
                   nextRun, outside, apiCalls, statusCall>>

\* The promise of r settles with `out` at the end of this step.
Settled(rec, out) ==
    [rec EXCEPT !.pc = "done", !.outcome = out, !.i = 0,
                !.existing = EmptyTree, !.result = EmptyTree,
                !.englishFiles = EmptyTree, !.englishGiven = {}]

SetProgress(x) == updateProgress' = [updateProgress EXCEPT !.progress = x]

\* the loop of index.js:316 running over LANGUAGES from its last element
LoopHeadBackwards(r, rec, i0) ==
    IF i0 < NumLanguages
    THEN IF rec.aborted
         THEN IF rec.processed = <<>>
              THEN /\ run' = [run EXCEPT ![r] = Settled(rec, "cancelled")]
                   /\ microtasks' = Reactions(r)
                   /\ UNCHANGED updateProgress
              ELSE /\ run' = [run EXCEPT ![r] = [rec EXCEPT !.pc = "revert"]]
                   /\ UNCHANGED <<microtasks, updateProgress>>
         ELSE /\ run' = [run EXCEPT ![r] = [rec EXCEPT !.pc = "readLang", !.i = NumLanguages - i0]]
              /\ SetProgress(LangProgress(i0))
              /\ UNCHANGED microtasks
    ELSE IF ~rec.aborted
         THEN /\ run' = [run EXCEPT ![r] = [rec EXCEPT !.pc = "stageEnglish", !.staged = TRUE]]
              /\ SetProgress(850)
              /\ UNCHANGED microtasks
         ELSE \* index.js:431-458  staging skipped, the call still returns
              /\ run' = [run EXCEPT ![r] = Settled(rec, "fulfilled")]
              /\ SetProgress(Scale)
              /\ microtasks' = Reactions(r)

\* index.js:316-330 for 0-based index i0 < NumLanguages, and 375-382 / 431-458
\* when the loop is over.  rec is the run's record on entry.  When the signal
\* is aborted and nothing was processed, revertProcessedLanguages awaits
\* nothing, so the throw, the catch block (460-467) and the rejection run in
\* the same turn.
LoopHead(r, rec, i0) ==
    IF i0 < NumLanguages
    THEN IF rec.aborted
         THEN IF rec.processed = <<>>
              THEN /\ run' = [run EXCEPT ![r] = Settled(rec, "cancelled")]
                   /\ microtasks' = Reactions(r)
                   /\ UNCHANGED updateProgress
              ELSE /\ run' = [run EXCEPT ![r] = [rec EXCEPT !.pc = "revert"]]
                   /\ UNCHANGED <<microtasks, updateProgress>>
         ELSE /\ run' = [run EXCEPT ![r] = [rec EXCEPT !.pc = "readLang", !.i = i0 + 1]]
              /\ SetProgress(LangProgress(i0))
              /\ UNCHANGED microtasks
    ELSE IF ~rec.aborted
         THEN /\ run' = [run EXCEPT ![r] = [rec EXCEPT !.pc = "stageEnglish", !.staged = TRUE]]
              /\ SetProgress(850)
              /\ UNCHANGED microtasks
         ELSE \* index.js:431-458  staging skipped, the call still returns
              /\ run' = [run EXCEPT ![r] = Settled(rec, "fulfilled")]
              /\ SetProgress(Scale)
              /\ microtasks' = Reactions(r)

\* index.js:270 (await ensureFilesFolder()) up to the first git command of the
\* reset loop (287)
Ensure(r) ==
    /\ microtasks = <<>>
    /\ run[r].pc = "ensure"
    /\ \E D \in DefaultFiles : ws' = ensureFilesFolder(ws, D)
    /\ run' = [run EXCEPT ![r].pc = "prep", ![r].i = 1]
    /\ SetProgress(PrepProgress(0))
    /\ UNCHANGED microtasks
    /\ PipelineFrame

\* index.js:279-310  one iteration of the reset loop; after the last one the
\* cancellation check of 296 and the read of the english files
PrepLang(r) ==
    /\ microtasks = <<>>
    /\ run[r].pc = "prep"
    /\ LET l == LANGUAGES[run[r].i] IN
       ws' = [ws EXCEPT ![l] = CheckoutThenClean(ws[l])]
    /\ IF run[r].i < NumLanguages
       THEN /\ run' = [run EXCEPT ![r].i = run[r].i + 1]
            /\ SetProgress(PrepProgress(run[r].i))
            /\ UNCHANGED microtasks
       ELSE IF run[r].aborted
            THEN /\ run' = [run EXCEPT ![r] = Settled(run[r], "cancelled")]
                 /\ microtasks' = Reactions(r)
                 /\ UNCHANGED updateProgress
            ELSE /\ run' = [run EXCEPT ![r].pc = "readEnglish"]
                 /\ SetProgress(200)
                 /\ UNCHANGED microtasks
    /\ PipelineFrame

\* index.js:308-330  englishFiles is read; first pass through the loop head
ReadEnglish(r) ==
    /\ microtasks = <<>>
    /\ run[r].pc = "readEnglish"
    /\ LoopHead(r, [run[r] EXCEPT !.englishFiles = ws[English].tree], 0)
    /\ UNCHANGED ws
    /\ PipelineFrame

\* the same step when the english files are read again for each language
ReadLangRereads(r) ==
    /\ microtasks = <<>>
    /\ run[r].pc = "readLang"
    /\ LET l == LANGUAGES[run[r].i] IN
       run' = [run EXCEPT ![r].pc = "algo",
                          ![r].existing = IF ws[l].exists THEN ws[l].tree ELSE EmptyTree,
                          ![r].englishFiles = ws[English].tree,
                          ![r].englishGiven = @ \cup {<<l, ws[English].tree>>}]
    /\ UNCHANGED <<ws, microtasks, updateProgress>>
    /\ PipelineFrame

\* index.js:338-344  languageFiles is read and algo is called with
\* englishString, the text of englishFiles
ReadLang(r) ==
    /\ microtasks = <<>>
    /\ run[r].pc = "readLang"
    /\ LET l == LANGUAGES[run[r].i] IN
       run' = [run EXCEPT ![r].pc = "algo",
                          ![r].existing = IF ws[l].exists THEN ws[l].tree ELSE EmptyTree,
                          ![r].englishGiven = @ \cup {<<l, run[r].englishFiles>>}]
    /\ UNCHANGED <<ws, microtasks, updateProgress>>
    /\ PipelineFrame

\* the return of the algo call without the cancellation check of index.js:347
AlgoReturnUnchecked(r) ==
    /\ microtasks = <<>>
    /\ run[r].pc = "algo"
    /\ \E result \in algo(r, run[r].existing) :
        LET l == LANGUAGES[run[r].i]
            rec == [run[r] EXCEPT !.existing = EmptyTree,
                       !.failed = IF result.kind # "resolved" \/ result.files \in AlgoFailure
                                  THEN @ \cup {l} ELSE @]
        IN IF Usable(result)
           THEN /\ run' = [run EXCEPT ![r] =
                             [rec EXCEPT !.pc = "write", !.result = result.files]]
                /\ UNCHANGED <<microtasks, updateProgress>>
           ELSE LoopHead(r, rec, run[r].i)
    /\ UNCHANGED ws
    /\ PipelineFrame

\* index.js:344-357, 369-372  the algo call ends; cancellation check; the
\* writes begin, or the language is skipped.  A rejection lands in the catch
\* block (460-472).
AlgoReturn(r) ==
    /\ microtasks = <<>>
    /\ run[r].pc = "algo"
    /\ \E result \in algo(r, run[r].existing) :
        LET l == LANGUAGES[run[r].i]
            rec == [run[r] EXCEPT !.existing = EmptyTree,
                       !.failed = IF result.kind # "resolved" \/ result.files \in AlgoFailure
                                  THEN @ \cup {l} ELSE @]
        IN IF result.kind = "rejected"
           THEN IF rec.aborted
                THEN IF rec.processed = <<>>
                     THEN /\ run' = [run EXCEPT ![r] = Settled(rec, "cancelled")]
                          /\ microtasks' = Reactions(r)
                          /\ UNCHANGED updateProgress
                     ELSE /\ run' = [run EXCEPT ![r] = [rec EXCEPT !.pc = "revertCatch"]]
                          /\ UNCHANGED <<microtasks, updateProgress>>
                ELSE /\ run' = [run EXCEPT ![r] = Settled(rec, "failed")]
                     /\ microtasks' = Reactions(r)
                     /\ UNCHANGED updateProgress
           ELSE IF rec.aborted
                THEN IF rec.processed = <<>>
                     THEN /\ run' = [run EXCEPT ![r] = Settled(rec, "cancelled")]
                          /\ microtasks' = Reactions(r)
                          /\ UNCHANGED updateProgress
                     ELSE /\ run' = [run EXCEPT ![r] = [rec EXCEPT !.pc = "revert"]]
                          /\ UNCHANGED <<microtasks, updateProgress>>
                ELSE IF Usable(result)
                     THEN /\ run' = [run EXCEPT ![r] =
                                       [rec EXCEPT !.pc = "write", !.result = result.files]]
                          /\ UNCHANGED <<microtasks, updateProgress>>
                     ELSE LoopHead(r, rec, run[r].i)
    /\ UNCHANGED ws
    /\ PipelineFrame

\* index.js:359-373  the files are written, the language is pushed, and the
\* loop goes round
WriteFiles(r) ==
    /\ microtasks = <<>>
    /\ run[r].pc = "write"
    /\ LET l == LANGUAGES[run[r].i]
           rec == [run[r] EXCEPT
                     !.result = EmptyTree,
                     !.historyAt[l] = ws[l].commits,
                     !.processed = Append(@, l),
                     !.wrote = @ \cup {<<l, f, run[r].result[f]>> :
                                         f \in {g \in Files : run[r].result[g] # Absent}}]
       IN /\ ws' = [ws EXCEPT ![l] = WriteResult(ws[l], run[r].result)]
          /\ LoopHead(r, rec, run[r].i)
    /\ PipelineFrame

\* index.js:321-322, 351-352  revertProcessedLanguages, then the throw lands in
\* the catch block, which calls it again (466)
Revert(r) ==
    /\ microtasks = <<>>
    /\ run[r].pc = "revert"
    /\ ws' = revertProcessedLanguages(ws, run[r].processed)
    /\ run' = [run EXCEPT ![r].pc = "revertCatch"]
    /\ UNCHANGED <<microtasks, updateProgress>>
    /\ PipelineFrame

\* index.js:460-467
RevertCatch(r) ==
    /\ microtasks = <<>>
    /\ run[r].pc = "revertCatch"
    /\ ws' = revertProcessedLanguages(ws, run[r].processed)
    /\ run' = [run EXCEPT ![r] = Settled(run[r], "cancelled")]
    /\ microtasks' = Reactions(r)
    /\ UNCHANGED updateProgress
    /\ PipelineFrame

\* index.js:388-400
StageEnglish(r) ==
    /\ microtasks = <<>>
    /\ run[r].pc = "stageEnglish"
    /\ ws' = [ws EXCEPT ![English] = GitAddAll(ws[English]).w]
    /\ run' = [run EXCEPT ![r].pc = "stageLang", ![r].i = 1]
    /\ SetProgress(StageProgress(0))
    /\ UNCHANGED microtasks
    /\ PipelineFrame

\* index.js:397-418
StageLang(r) ==
    /\ microtasks = <<>>
    /\ run[r].pc = "stageLang"
    /\ LET l == LANGUAGES[run[r].i] IN
       ws' = [ws EXCEPT ![l] = GitAddAll(ws[l]).w]
    /\ IF run[r].i < NumLanguages
       THEN /\ run' = [run EXCEPT ![r].i = run[r].i + 1]
            /\ SetProgress(StageProgress(run[r].i))
       ELSE /\ run' = [run EXCEPT ![r].pc = "commitEnglish"]
            /\ SetProgress(950)
    /\ UNCHANGED microtasks
    /\ PipelineFrame

\* the end of the staging block without the commit of index.js:420-422
CommitEnglishNever(r) ==
    /\ microtasks = <<>>
    /\ run[r].pc = "commitEnglish"
    /\ run' = [run EXCEPT ![r] = Settled(run[r], "fulfilled")]
    /\ SetProgress(Scale)
    /\ microtasks' = Reactions(r)
    /\ UNCHANGED ws
    /\ PipelineFrame

\* index.js:418-458
CommitEnglish(r) ==
    /\ microtasks = <<>>
    /\ run[r].pc = "commitEnglish"
    /\ ws' = [ws EXCEPT ![English] =
                IF ws[English].git /\ StagedNames(ws[English]) # {}
                THEN GitCommit(ws[English]).w ELSE ws[English]]
    /\ run' = [run EXCEPT ![r] = Settled(run[r], "fulfilled")]
    /\ SetProgress(Scale)
    /\ microtasks' = Reactions(r)
    /\ PipelineFrame

\* ------------------------------------------- the same steps, with an I/O error
\* index.js:359-363, 460-472  an fs.writeFile rejects once the files of S have
\* been written: the language is not pushed and the error lands in the catch
\* block, which re-throws it unless the signal is aborted.
WriteFails(r) ==
    /\ microtasks = <<>>
    /\ run[r].pc = "write"
    /\ LET l == LANGUAGES[run[r].i]
           names == {g \in Files : run[r].result[g] # Absent}
       IN \E S \in (SUBSET names) \ {names} :
            LET part == [f \in Files |-> IF f \in S THEN run[r].result[f] ELSE Absent]
                rec == [run[r] EXCEPT
                          !.result = EmptyTree,
                          !.wrote = @ \cup {<<l, f, part[f]>> : f \in S}]
            IN /\ ws' = [ws EXCEPT ![l] = WriteResult(ws[l], part)]
               /\ IF rec.aborted /\ rec.processed # <<>>
                  THEN /\ run' = [run EXCEPT ![r] = [rec EXCEPT !.pc = "revertCatch"]]
                       /\ UNCHANGED microtasks
                  ELSE /\ run' = [run EXCEPT ![r] =
                            Settled(rec, IF rec.aborted THEN "cancelled" ELSE "failed")]
                       /\ microtasks' = Reactions(r)
    /\ UNCHANGED updateProgress
    /\ PipelineFrame

\* index.js:88-128  ensureFilesFolder when the call that ensures the folder
\* after the first k of <<english>> \o LANGUAGES rejects (fs.ensureDir, or
\* `git init` or `git config` of ensureGitRepo): the default files are copied
\* and k repositories are ensured.
ensureFilesFolderUpTo(s, D, k) ==
    LET order == <<English>> \o LANGUAGES
        copied == [w \in Workspaces |->
                     IF ~filesFolderExists(s) /\ w \in D
                     THEN [s[w] EXCEPT !.exists = TRUE,
                                       !.tree = [EmptyTree EXCEPT !["a.txt"] = DefaultContent]]
                     ELSE s[w]]
    IN [w \in Workspaces |->
          IF \E j \in 1..k : order[j] = w
          THEN ensureGitRepo([copied[w] EXCEPT !.exists = TRUE])
          ELSE copied[w]]

\* a setup failure that is logged and ignored: the run goes on
EnsureFailsIgnored(r) ==
    /\ microtasks = <<>>
    /\ run[r].pc = "ensure"
    /\ \E D \in DefaultFiles, k \in 0..NumLanguages :
          ws' = ensureFilesFolderUpTo(ws, D, k)
    /\ run' = [run EXCEPT ![r].pc = "prep", ![r].i = 1, ![r].setupFailed = TRUE]
    /\ SetProgress(PrepProgress(0))
    /\ UNCHANGED microtasks
    /\ PipelineFrame

\* index.js:270, 460-472  `await ensureFilesFolder()` rejects: the error lands
\* in the catch block, which re-throws it, as a cancellation when the signal
\* is aborted (nothing was processed, so the revert of 466 awaits nothing).
EnsureFails(r) ==
    /\ microtasks = <<>>
    /\ run[r].pc = "ensure"
    /\ \E D \in DefaultFiles, k \in 0..NumLanguages :
          ws' = ensureFilesFolderUpTo(ws, D, k)
    /\ run' = [run EXCEPT ![r] =
                  Settled([run[r] EXCEPT !.setupFailed = TRUE],
                          IF run[r].aborted THEN "cancelled" ELSE "failed")]
    /\ microtasks' = Reactions(r)
    /\ UNCHANGED updateProgress
    /\ PipelineFrame

\* index.js:388-400  `git add -A` in the specification rejects: the error is
\* caught and logged (394-396)
StageEnglishFails(r) ==
    /\ microtasks = <<>>
    /\ run[r].pc = "stageEnglish"
    /\ run' = [run EXCEPT ![r].pc = "stageLang", ![r].i = 1, ![r].gitFailed = TRUE]
    /\ SetProgress(StageProgress(0))
    /\ UNCHANGED <<ws, microtasks>>
    /\ PipelineFrame

\* index.js:397-418  `git add -A` in a language rejects: caught and logged
\* (407-409)
StageLangFails(r) ==
    /\ microtasks = <<>>
    /\ run[r].pc = "stageLang"
    /\ IF run[r].i < NumLanguages
       THEN /\ run' = [run EXCEPT ![r].i = run[r].i + 1, ![r].gitFailed = TRUE]
            /\ SetProgress(StageProgress(run[r].i))
       ELSE /\ run' = [run EXCEPT ![r].pc = "commitEnglish", ![r].gitFailed = TRUE]
            /\ SetProgress(950)
    /\ UNCHANGED <<ws, microtasks>>
    /\ PipelineFrame

\* index.js:418-458  `git diff --cached` or `git commit` in the specification
\* rejects: caught and logged (426-428), and the call returns
CommitEnglishFails(r) ==
    /\ microtasks = <<>>
    /\ run[r].pc = "commitEnglish"
    /\ run' = [run EXCEPT ![r] = Settled([run[r] EXCEPT !.gitFailed = TRUE], "fulfilled")]
    /\ SetProgress(Scale)
    /\ microtasks' = Reactions(r)
    /\ UNCHANGED ws
    /\ PipelineFrame


\* ------------------------------------------------------- POST /update handler
\* index.js:196-217  the new controller is recorded, progress is initialised
\* and processUpdate runs up to its first await (253-270).  p is the value of
\* updateProgress and rs the value of run when this segment starts.
Begin(r, p, rs) ==
    /\ currentUpdateController' = r
    /\ currentUpdatePromise' = r
    /\ updateProgress' = [ResetProgress(p) EXCEPT !.progress = 50]
    /\ run' = [rs EXCEPT ![r].pc = "ensure"]

\* index.js:173-217  a request arrives.  With a controller recorded it aborts
\* it, resets progress and suspends on the recorded promise (175-194).
StartUpdate ==
    /\ microtasks = <<>>
    /\ nextRun <= MaxRuns
    /\ nextRun' = nextRun + 1
    /\ lastApi' = NoApi
    /\ UNCHANGED <<ws, outside, apiCalls, statusCall>>
    /\ LET r == nextRun
           c == currentUpdateController
           q == currentUpdatePromise
           aborted == [run EXCEPT ![c].aborted = TRUE,
                                  ![c].abortedBy = IF run[c].aborted THEN @ ELSE r,
                                  ![c].abortedAt = IF run[c].aborted THEN @ ELSE run[c].pc]
       IN IF c # NoRun
          THEN IF q # NoRun
               THEN /\ run' = aborted
                    /\ updateProgress' = ResetProgress(updateProgress)
                    /\ IF run[q].outcome = "pending"
                       THEN /\ waiters' = [waiters EXCEPT ![q] = Append(@, r)]
                            /\ UNCHANGED microtasks
                       ELSE /\ microtasks' = <<[job |-> "resume", r |-> r]>>
                            /\ UNCHANGED waiters
                    /\ UNCHANGED <<currentUpdateController, currentUpdatePromise>>
               ELSE /\ Begin(r, ResetProgress(updateProgress), aborted)
                    /\ UNCHANGED <<waiters, microtasks>>
          ELSE /\ Begin(r, updateProgress, run)
               /\ UNCHANGED <<waiters, microtasks>>

MicrotaskFrame ==
    /\ lastApi' = NoApi
    /\ UNCHANGED <<waiters, nextRun, ws, outside, apiCalls, statusCall>>

\* index.js:189-217  the awaited promise has settled and the handler goes on
ResumeUpdate ==
    /\ microtasks # <<>>
    /\ Head(microtasks).job = "resume"
    /\ Begin(Head(microtasks).r, updateProgress, run)
    /\ microtasks' = Tail(microtasks)
    /\ MicrotaskFrame

\* .then() whose callback leaves isRunning as it is
ThenKeepsRunning ==
    /\ microtasks # <<>>
    /\ Head(microtasks).job = "then"
    /\ microtasks' = Append(Tail(microtasks), [job |-> "catch", r |-> Head(microtasks).r])
    /\ UNCHANGED <<currentUpdateController, currentUpdatePromise, run, updateProgress>>
    /\ MicrotaskFrame

\* index.js:219-228  .then(): runs its callback when the promise fulfilled, and
\* in both cases settles the promise .catch() is registered on
ThenHandler ==
    /\ microtasks # <<>>
    /\ Head(microtasks).job = "then"
    /\ LET r == Head(microtasks).r IN
       /\ updateProgress' =
            IF run[r].outcome = "fulfilled" /\ currentUpdateController = r
            THEN [progress |-> Scale, isRunning |-> FALSE,
                  startTime |-> updateProgress.startTime, error |-> "null"]
            ELSE updateProgress
       /\ microtasks' = Append(Tail(microtasks), [job |-> "catch", r |-> r])
    /\ UNCHANGED <<currentUpdateController, currentUpdatePromise, run>>
    /\ MicrotaskFrame

\* .catch() whose callback resets progress to 0
CatchResetsFraction ==
    /\ microtasks # <<>>
    /\ Head(microtasks).job = "catch"
    /\ LET r == Head(microtasks).r IN
       /\ updateProgress' =
            IF run[r].outcome # "fulfilled" /\ currentUpdateController = r
            THEN [progress |-> 0, isRunning |-> FALSE,
                  startTime |-> updateProgress.startTime,
                  error |-> run[r].outcome]
            ELSE updateProgress
       /\ microtasks' = Append(Tail(microtasks), [job |-> "finally", r |-> r])
    /\ UNCHANGED <<currentUpdateController, currentUpdatePromise, run>>
    /\ MicrotaskFrame

\* index.js:229-238
CatchHandler ==
    /\ microtasks # <<>>
    /\ Head(microtasks).job = "catch"
    /\ LET r == Head(microtasks).r IN
       /\ updateProgress' =
            IF run[r].outcome # "fulfilled" /\ currentUpdateController = r
            THEN [progress |-> updateProgress.progress, isRunning |-> FALSE,
                  startTime |-> updateProgress.startTime,
                  error |-> run[r].outcome]
            ELSE updateProgress
       /\ microtasks' = Append(Tail(microtasks), [job |-> "finally", r |-> r])
    /\ UNCHANGED <<currentUpdateController, currentUpdatePromise, run>>
    /\ MicrotaskFrame

\* Once the last reaction of a settled promise has run nothing refers to the
\* call any more; only its outcome and its signal are kept.
Forgotten(rec) ==
    [IdleRun EXCEPT !.pc = "done", !.outcome = rec.outcome,
                    !.aborted = rec.aborted, !.abortedBy = rec.abortedBy]

\* .finally() without the test of index.js:241
FinallyClearsAlways ==
    /\ microtasks # <<>>
    /\ Head(microtasks).job = "finally"
    /\ currentUpdateController' = NoRun
    /\ currentUpdatePromise' = NoRun
    /\ microtasks' = Tail(microtasks)
    /\ run' = [run EXCEPT ![Head(microtasks).r] = Forgotten(@)]
    /\ UNCHANGED updateProgress
    /\ MicrotaskFrame

\* .finally() that leaves the recorded controller and promise in place
FinallyKeepsController ==
    /\ microtasks # <<>>
    /\ Head(microtasks).job = "finally"
    /\ microtasks' = Tail(microtasks)
    /\ run' = [run EXCEPT ![Head(microtasks).r] = Forgotten(@)]
    /\ UNCHANGED <<currentUpdateController, currentUpdatePromise, updateProgress>>
    /\ MicrotaskFrame

\* index.js:239-245
FinallyHandler ==
    /\ microtasks # <<>>
    /\ Head(microtasks).job = "finally"
    /\ LET r == Head(microtasks).r IN
       IF currentUpdateController = r
       THEN /\ currentUpdateController' = NoRun
            /\ currentUpdatePromise' = NoRun
       ELSE UNCHANGED <<currentUpdateController, currentUpdatePromise>>
    /\ microtasks' = Tail(microtasks)
    /\ run' = [run EXCEPT ![Head(microtasks).r] = Forgotten(@)]
    /\ UNCHANGED updateProgress
    /\ MicrotaskFrame


\* ------------------------------------------------------------- path model
\* Paths are sequences of segments; a string is the sequence of its
\* characters, so that String.startsWith is the prefix test it is.
Chars(name) ==
    CASE name = "repo" -> <<"r", "e", "p", "o">>
      [] name = "files" -> <<"f", "i", "l", "e", "s">>
      [] name = "languages" -> <<"l", "a", "n", "g", "u", "a", "g", "e", "s">>
      [] name = "english" -> <<"e", "n", "g", "l", "i", "s", "h">>
      [] name = "javascript" -> <<"j", "a", "v", "a", "s", "c", "r", "i", "p", "t">>
      [] name = "java" -> <<"j", "a", "v", "a">>
      [] name = "java-old" -> <<"j", "a", "v", "a", "-", "o", "l", "d">>
      [] name = "ruby" -> <<"r", "u", "b", "y">>
      [] name = "go" -> <<"g", "o">>
      [] name = "etc" -> <<"e", "t", "c">>
      [] name = "passwd" -> <<"p", "a", "s", "s", "w", "d">>
      [] name = "a.txt" -> <<"a", ".", "t", "x", "t">>

RECURSIVE PathString(_)
PathString(segs) ==
    IF segs = <<>> THEN <<>>
    ELSE <<"/">> \o Chars(Head(segs)) \o PathString(Tail(segs))

startsWith(s, prefix) ==
    /\ Len(prefix) <= Len(s)
    /\ SubSeq(s, 1, Len(prefix)) = prefix

\* path.normalize on an absolute path: "." and empty segments vanish, ".."
\* removes the segment before it and is dropped at the root.
RECURSIVE Normalize(_, _)
Normalize(acc, segs) ==
    IF segs = <<>> THEN acc
    ELSE LET x == Head(segs) IN
         Normalize(IF x = "." \/ x = "" THEN acc
                   ELSE IF x = ".." THEN SubSeq(acc, 1, Len(acc) - 1)
                   ELSE Append(acc, x),
                   Tail(segs))

pathJoin(base, rel) == Normalize(<<>>, base \o rel)

\* path.join(__dirname, '..')
Root == <<"repo">>

\* index.js:623-625
basePath(language) ==
    IF language = English
    THEN pathJoin(Root, <<"files", "english">>)
    ELSE pathJoin(Root, <<"files", "languages", language>>)

\* index.js:630  the security check lets the request through
PathAllowed(language, filePath) ==
    startsWith(PathString(pathJoin(basePath(language), filePath)),
               PathString(basePath(language)))

\* Where a full path lies: the file of a workspace, or outside all of them.
InWorkspace(full, w) ==
    /\ Len(full) = Len(basePath(w)) + 1
    /\ SubSeq(full, 1, Len(basePath(w))) = basePath(w)
    /\ full[Len(full)] \in Files

Located(full) == {w \in Workspaces : InWorkspace(full, w)}

\* ------------------------------------------- approve / reject / save-file
ApiFrame ==
    /\ microtasks = <<>>
    /\ apiCalls < MaxApiCalls
    /\ apiCalls' = apiCalls + 1
    /\ UNCHANGED <<currentUpdateController, currentUpdatePromise,
                   updateProgress, waiters, microtasks, nextRun, statusCall>>

\* History: the calls in flight note the workspaces a request has acted on.
Touch(S) ==
    run' = [r \in Runs |->
              IF InFlight(r)
              THEN [run[r] EXCEPT
                      !.touched = @ \cup S,
                      !.specTouched = @ \/ (English \in S /\
                            run[r].pc \in {"stageLang", "commitEnglish"})]
              ELSE run[r]]

\* The request values tried for `language`: every workspace, a name that is
\* no language, and the missing field.
MissingField == ""
NoPath == <<>>
ApiLanguages == Workspaces \cup {"cobol", MissingField}

Response(op, language, filePath, status, done) ==
    [op |-> op, language |-> language, filePath |-> filePath,
     status |-> status, done |-> done, pre |-> ws, preOutside |-> outside]

\* approve that stages the working tree before it commits
approveEverything(w) ==
    LET a == GitAddAll(w) IN
    IF ~a.ok THEN [w |-> w, status |-> 500, done |-> FALSE]
    ELSE IF StagedNames(a.w) # {}
         THEN [w |-> GitCommit(a.w).w, status |-> 200, done |-> TRUE]
         ELSE [w |-> a.w, status |-> 200, done |-> FALSE]

\* approve that commits whether or not anything is staged
approveEmpty(w) ==
    LET c == GitCheckoutAll(w)
        w1 == IF c.ok THEN c.w ELSE w
    IN IF ~w1.git THEN [w |-> w1, status |-> 500, done |-> FALSE]
       ELSE [w |-> [w1 EXCEPT !.head = w1.index, !.commits = w1.commits + 1],
             status |-> 200, done |-> TRUE]

\* index.js:532-571  on an existing folder: discard unstaged changes, then
\* commit if anything is staged.  Yields the workspace and the HTTP outcome.
approveWorkspace(w) ==
    LET c == GitCheckoutAll(w)
        w1 == IF c.ok THEN c.w ELSE w
    IN IF ~w1.git THEN [w |-> w1, status |-> 500, done |-> FALSE]
       ELSE IF StagedNames(w1) # {}
            THEN LET k == GitCommit(w1) IN
                 IF k.ok THEN [w |-> k.w, status |-> 200, done |-> TRUE]
                 ELSE [w |-> w1, status |-> 500, done |-> FALSE]
            ELSE [w |-> w1, status |-> 200, done |-> FALSE]

\* index.js:500-599
Approve(language) ==
    /\ ApiFrame
    /\ UNCHANGED outside
    /\ IF language = MissingField \/ language \notin Targets
       THEN /\ lastApi' = Response("approve", language, NoPath, 400, FALSE)
            /\ UNCHANGED <<ws, run>>
       ELSE IF ~ws[language].exists
            THEN /\ lastApi' = Response("approve", language, NoPath, 400, FALSE)
                 /\ UNCHANGED <<ws, run>>
            ELSE /\ ws[language].commits < MaxCommits
                 /\ LET a == approveWorkspace(ws[language]) IN
                    /\ ws' = [ws EXCEPT ![language] = a.w]
                    /\ lastApi' = Response("approve", language, NoPath, a.status, a.done)
                 /\ Touch({language})

\* reject without the staged-changes test of index.js:764
rejectAlways(w) ==
    IF ~w.git THEN [w |-> w, status |-> 500, done |-> FALSE]
    ELSE LET r1 == GitResetHead(w)
             w1 == IF r1.ok THEN r1.w ELSE w
         IN [w |-> CheckoutThenClean(w1), status |-> 200, done |-> StagedNames(w) # {}]

\* index.js:759-808
rejectWorkspace(w) ==
    IF ~w.git THEN [w |-> w, status |-> 500, done |-> FALSE]
    ELSE IF StagedNames(w) # {}
         THEN LET r1 == GitResetHead(w) IN
              IF ~r1.ok THEN [w |-> w, status |-> 500, done |-> FALSE]
              ELSE LET r2 == GitCheckoutAll(r1.w) IN
                   IF ~r2.ok THEN [w |-> r1.w, status |-> 500, done |-> FALSE]
                   ELSE [w |-> GitClean(r2.w).w, status |-> 200, done |-> TRUE]
         ELSE [w |-> w, status |-> 200, done |-> FALSE]

\* index.js:725-819
Reject(language) ==
    /\ ApiFrame
    /\ UNCHANGED outside
    /\ IF language = MissingField \/ language \notin Targets
       THEN /\ lastApi' = Response("reject", language, NoPath, 400, FALSE)
            /\ UNCHANGED <<ws, run>>
       ELSE IF ~ws[language].exists
            THEN /\ lastApi' = Response("reject", language, NoPath, 400, FALSE)
                 /\ UNCHANGED <<ws, run>>
            ELSE /\ LET a == rejectWorkspace(ws[language]) IN
                    /\ ws' = [ws EXCEPT ![language] = a.w]
                    /\ lastApi' = Response("reject", language, NoPath, a.status, a.done)
                 /\ Touch({language})

\* The request values tried for filePath ("" is the missing field).
SavePaths ==
    {<<"a.txt">>,
     <<"..", "javascript", "a.txt">>,
     <<"..", "java-old", "a.txt">>,
     <<"..", "..", "..", "etc", "passwd">>}

\* index.js:637-650  the write and the staging, once the checks have passed
saveInto(s, language, full) ==
    LET written == [w \in Workspaces |->
                      IF InWorkspace(full, w)
                      THEN [s[w] EXCEPT !.exists = TRUE,
                                        !.tree[full[Len(full)]] = UserContent]
                      ELSE s[w]]
    IN [written EXCEPT ![language] =
           IF written[language].exists THEN GitAddAll(written[language]).w
           ELSE written[language]]

\* save-file without the language test of index.js:613-618
SaveFileAnyLanguage(language, filePath) ==
    /\ ApiFrame
    /\ IF language = MissingField \/ filePath = NoPath
       THEN /\ lastApi' = Response("save-file", language, filePath, 400, FALSE)
            /\ UNCHANGED <<ws, outside, run>>
       ELSE IF language \notin Workspaces
            THEN /\ outside' = outside \cup {<<"repo", "files", "languages", language>> \o filePath}
                 /\ lastApi' = Response("save-file", language, filePath, 200, TRUE)
                 /\ UNCHANGED <<ws, run>>
            ELSE IF ~PathAllowed(language, filePath)
                 THEN /\ lastApi' = Response("save-file", language, filePath, 400, FALSE)
                      /\ UNCHANGED <<ws, outside, run>>
                 ELSE LET full == pathJoin(basePath(language), filePath) IN
                      /\ ws' = saveInto(ws, language, full)
                      /\ outside' = IF Located(full) = {} THEN outside \cup {full} ELSE outside
                      /\ lastApi' = Response("save-file", language, filePath, 200, TRUE)
                      /\ Touch({language} \cup Located(full))

\* index.js:602-668
SaveFile(language, filePath) ==
    /\ ApiFrame
    /\ IF language = MissingField \/ filePath = NoPath
          \/ language \notin Workspaces
          \/ ~PathAllowed(language, filePath)
       THEN /\ lastApi' = Response("save-file", language, filePath, 400, FALSE)
            /\ UNCHANGED <<ws, outside, run>>
       ELSE LET full == pathJoin(basePath(language), filePath) IN
            /\ ws' = saveInto(ws, language, full)
            /\ outside' = IF Located(full) = {} THEN outside \cup {full} ELSE outside
            /\ lastApi' = Response("save-file", language, filePath, 200, TRUE)
            /\ Touch({language} \cup Located(full))

\* ------------------------------------------------------------ specifications
PipelineStep(r) ==
    \/ Ensure(r)
    \/ PrepLang(r)
    \/ ReadEnglish(r)
    \/ ReadLang(r)
    \/ AlgoReturn(r)
    \/ WriteFiles(r)
    \/ Revert(r)
    \/ RevertCatch(r)
    \/ StageEnglish(r)
    \/ StageLang(r)
    \/ CommitEnglish(r)

Microtask ==
    \/ ResumeUpdate
    \/ ThenHandler
    \/ CatchHandler
    \/ FinallyHandler

\* The orchestrator alone: /update requests and their pipelines.
NextUpdate ==
    \/ StartUpdate
    \/ Microtask
    \/ \E r \in Runs : PipelineStep(r)

SpecUpdate == Init /\ [][NextUpdate]_vars


ApiCall ==
    \/ \E language \in ApiLanguages : Approve(language)
    \/ \E language \in ApiLanguages : Reject(language)
    \/ \E language \in ApiLanguages, filePath \in SavePaths \cup {NoPath} :
          SaveFile(language, filePath)

\* The whole backend.
Next ==
    \/ StartUpdate
    \/ Microtask
    \/ \E r \in Runs : PipelineStep(r)
    \/ ApiCall

Spec == Init /\ [][Next]_vars

\* The checkpoint store: approve, reject and save-file requests, served
\* before, during and after StoreRuns runs of the pipeline.
StartStoreUpdate ==
    /\ nextRun <= StoreRuns
    /\ StartUpdate

NextStore ==
    \/ StartStoreUpdate
    \/ ThenHandler
    \/ CatchHandler
    \/ FinallyHandler
    \/ \E r \in Runs :
        \/ Ensure(r)
        \/ PrepLang(r)
        \/ ReadEnglish(r)
        \/ ReadLang(r)
        \/ AlgoReturn(r)
        \/ WriteFiles(r)
        \/ StageEnglish(r)
        \/ StageLang(r)
        \/ CommitEnglish(r)
    \/ ApiCall

SpecStore == Init /\ [][NextStore]_vars

\* The orchestrator when file-system and git calls may fail.
StartFaultUpdate ==
    /\ nextRun <= FaultRuns
    /\ StartUpdate

NextFault ==
    \/ StartFaultUpdate
    \/ Microtask
    \/ \E r \in Runs :
        \/ PipelineStep(r)
        \/ EnsureFails(r)
        \/ WriteFails(r)
        \/ StageEnglishFails(r)
        \/ StageLangFails(r)
        \/ CommitEnglishFails(r)

SpecFault == Init /\ [][NextFault]_vars


\* ===================================================================== claims
\* The promise of run r has settled and its reactions (index.js:219-245) are
\* still running: the moment the run terminates.
Settling(r) ==
    /\ run[r].pc = "done"
    /\ \E k \in 1..Len(microtasks) :
         microtasks[k].r = r /\ microtasks[k].job # "resume"

Processed(r) == {run[r].processed[k] : k \in 1..Len(run[r].processed)}

\* C1: at most one pipeline is in flight: a pipeline performs its first
\* workspace mutation (it is past the await of ensureFilesFolder) only when
\* every pipeline started before it has terminated.  (Stated as the claim
\* states it; the code violates it.)
C1_OnePipelineInFlight ==
    \A q, r \in Runs :
        (q < r /\ run[r].pc \notin {"idle", "ensure"}) => run[q].pc = "done"

\* C2: when run b, started by the request that aborted run a, completes, no
\* target holds a file with content generated by a, unless b wrote that file.
C2_NoFileOfSupersededRun ==
    \A a, b \in Runs :
        (run[a].abortedBy = b /\ Settling(b) /\ run[b].outcome = "fulfilled")
        => \A t \in Targets, f \in Files :
              ws[t].tree[f] = a => <<t, f, a>> \in run[b].wrote

\* C3: when a run whose signal is aborted terminates, every target it
\* processed is back at its baseline: nothing unstaged or untracked, and no
\* content generated by the run in its working tree or stage.
C3_CancelledRunReverted ==
    \A r \in Runs :
        (Settling(r) /\ run[r].aborted)
        => \A t \in Processed(r) :
              /\ ws[t].tree = ws[t].index
              /\ \A f \in Files : ws[t].tree[f] # r

\* C4: except in the steps in which /update resets it (they take a new
\* startTime), updateProgress.progress never decreases.
C4_ProgressMonotonic ==
    [][updateProgress'.startTime = updateProgress.startTime
         => updateProgress'.progress >= updateProgress.progress]_vars

\* C5: when a run completes in which generation failed for target x and
\* succeeded for target y, the run has written no file to x, and the files
\* returned for y are in y's stage.
C5_FailedTargetUntouched ==
    \A r \in Runs, x, y \in Targets :
        (Settling(r) /\ run[r].outcome = "fulfilled" /\ ~run[r].aborted
            /\ x \in run[r].failed /\ y \in Processed(r) \ run[r].failed)
        => /\ \A w \in run[r].wrote : w[1] # x
           /\ \A w \in run[r].wrote : w[1] = y => ws[y].index[w[2]] = w[3]

\* C6: a run in which generation failed for some target, and that was not
\* cancelled, is not aborted by it: it terminates fulfilled, having gone
\* through every target and the staging block, with updateProgress.error null.
C6_FailureDoesNotAbort ==
    \A r \in Runs :
        (Settling(r) /\ ~run[r].aborted /\ run[r].failed # {})
        => /\ run[r].outcome = "fulfilled"
           /\ run[r].processed = LANGUAGES
           /\ run[r].staged
           /\ updateProgress.error = "null"

C6_Witness ==
    \E r \in Runs :
        /\ Settling(r) /\ ~run[r].aborted
        /\ LANGUAGES[1] \in run[r].failed
        /\ LANGUAGES[NumLanguages] \notin run[r].failed
        /\ run[r].outcome = "fulfilled"


\* What "the normalized location lies inside the root" means: the root's
\* segments are a proper prefix of the location's segments.
Inside(base, full) ==
    /\ Len(full) > Len(base)
    /\ SubSeq(full, 1, Len(base)) = base

\* C7: a save-file request whose normalized path lies outside the root of the
\* addressed workspace is answered 400 with nothing changed, and no save-file
\* request changes another workspace or writes outside all workspaces.
\* (Stated as the claim states it; the code violates it.)
C7_SaveFileStaysInRoot ==
    (lastApi.op = "save-file" /\ lastApi.language \in Workspaces
        /\ lastApi.filePath # NoPath)
    => LET base == basePath(lastApi.language)
           full == pathJoin(base, lastApi.filePath)
       IN /\ ~Inside(base, full)
                => (lastApi.status = 400 /\ ws = lastApi.pre)
          /\ \A w \in Workspaces \ {lastApi.language} : ws[w] = lastApi.pre[w]
          /\ outside = lastApi.preOutside

\* C8: approve on a target with staged changes answers 200 committed, adds
\* exactly one checkpoint whose tree is the stage as it was at the call, leaves
\* the stage as it was, and has discarded the unstaged edits to tracked files.
C8_ApproveCommitsStage ==
    (lastApi.op = "approve" /\ lastApi.language \in Targets
        /\ lastApi.pre[lastApi.language].exists
        /\ StagedNames(lastApi.pre[lastApi.language]) # {})
    => LET t == lastApi.language
           before == lastApi.pre[t]
       IN /\ lastApi.status = 200 /\ lastApi.done
          /\ ws[t].commits = before.commits + 1
          /\ ws[t].head = before.index
          /\ ws[t].index = before.index
          /\ \A f \in Tracked(before) : ws[t].tree[f] = before.index[f]
          /\ \A f \in Files \ Tracked(before) : ws[t].tree[f] = before.tree[f]
          /\ \A w \in Workspaces \ {t} : ws[w] = lastApi.pre[w]

\* an approve that committed, served when a tracked file had an unstaged edit
C8_Witness ==
    /\ lastApi.op = "approve" /\ lastApi.done
    /\ \E f \in Tracked(lastApi.pre[lastApi.language]) :
         LET before == lastApi.pre[lastApi.language] IN
         /\ before.tree[f] # before.index[f]
         /\ before.index[f] # before.head[f]

\* C10: reject on a target whose repository has nothing staged answers 200
\* with nothing reverted and changes no workspace (so a further reject finds
\* the same state and answers the same).
C10_RejectNothingStaged ==
    (lastApi.op = "reject" /\ lastApi.language \in Targets
        /\ lastApi.pre[lastApi.language].exists
        /\ lastApi.pre[lastApi.language].git
        /\ StagedNames(lastApi.pre[lastApi.language]) = {})
    => /\ lastApi.status = 200 /\ ~lastApi.done
       /\ ws = lastApi.pre
       /\ outside = lastApi.preOutside

\* such a reject, served on a repository with unstaged or untracked changes
C10_Witness ==
    /\ lastApi.op = "reject" /\ lastApi.language \in Targets
    /\ lastApi.status = 200 /\ ~lastApi.done
    /\ LET before == lastApi.pre[lastApi.language] IN
       /\ before.git /\ before.commits > 0
       /\ before.tree # before.index


\* Run r has completed as the claim C9 supposes: fulfilled, never cancelled,
\* having written files to target t, with no approve, reject or save-file
\* request served on t meanwhile.
CompletedWith(r, t) ==
    /\ Settling(r) /\ run[r].outcome = "fulfilled" /\ ~run[r].aborted
    /\ run[r].staged
    /\ t \notin run[r].touched
    /\ \E w \in run[r].wrote : w[1] = t

C11_RejectRestoresCheckpoint ==
    (lastApi.op = "reject" /\ lastApi.language \in Targets
        /\ lastApi.pre[lastApi.language].exists
        /\ lastApi.pre[lastApi.language].git
        /\ StagedNames(lastApi.pre[lastApi.language]) # {})
    => LET t == lastApi.language
           before == lastApi.pre[t]
       IN /\ lastApi.status = 200 /\ lastApi.done
          /\ ws[t].index = before.head
          /\ ws[t].tree = before.head
          /\ ws[t].head = before.head
          /\ ws[t].commits = before.commits

\* The reaction at the head of the queue belongs to the promise of run r.
Reacting(job, r) ==
    /\ microtasks # <<>>
    /\ Head(microtasks).job = job
    /\ Head(microtasks).r = r

C13_CompletedRunIsTerminal ==
    [][\A r \in Runs :
         (run[r].outcome = "fulfilled" /\ currentUpdateController = r)
         => /\ Reacting("then", r)
                => updateProgress' = [progress |-> Scale, isRunning |-> FALSE,
                                      startTime |-> updateProgress.startTime,
                                      error |-> "null"]
            /\ Reacting("finally", r)
                => /\ updateProgress.progress = Scale
                   /\ ~updateProgress.isRunning
                   /\ updateProgress.error = "null"
                   /\ updateProgress' = updateProgress
                   /\ currentUpdateController' = NoRun
                   /\ currentUpdatePromise' = NoRun]_vars

\* a run ended fulfilled, its reactions are over, nothing is current
C13_Witness ==
    /\ \E r \in Runs : run[r].pc = "done" /\ run[r].outcome = "fulfilled"
    /\ microtasks = <<>>
    /\ currentUpdateController = NoRun /\ currentUpdatePromise = NoRun
    /\ updateProgress.progress = Scale /\ ~updateProgress.isRunning
    /\ \A r \in Runs : ~InFlight(r)

\* C14: when the promise of the run currentUpdateController points to has
\* rejected with an error that is no cancellation, the step that rejects it
\* and its .then() leave updateProgress alone, and its .catch() publishes
\* isRunning false and the error, with progress as it was.
C14_FailedRunKeepsFraction ==
    [][\A r \in Runs :
         /\ (run[r].outcome = "pending" /\ run'[r].outcome = "failed")
              => updateProgress' = updateProgress
         /\ (run[r].outcome = "failed" /\ currentUpdateController = r)
              => /\ Reacting("then", r) => updateProgress' = updateProgress
                 /\ Reacting("catch", r)
                      => /\ updateProgress'.progress = updateProgress.progress
                         /\ ~updateProgress'.isRunning
                         /\ updateProgress'.error = "failed"]_vars

\* the .catch() of a failed run has published the error, with progress at the
\* value of the language loop
C14_Witness ==
    \E r \in Runs :
        /\ Reacting("finally", r)
        /\ run[r].outcome = "failed" /\ currentUpdateController = r
        /\ updateProgress.error = "failed" /\ ~updateProgress.isRunning
        /\ updateProgress.progress >= 250


\* C15: when a git command of the staging block has failed in the run that
\* is current, then once its .then() and .catch() have run Progress shows
\* isRunning false and an error, and the files the run wrote are still in the
\* working trees.  (Stated as the claim states it; the code violates it.)
C15_StagingFailureFailsRun ==
    \A r \in Runs :
        (Reacting("finally", r) /\ run[r].gitFailed /\ ~run[r].aborted
            /\ currentUpdateController = r)
        => /\ ~updateProgress.isRunning
           /\ updateProgress.error # "null"
           /\ \A w \in run[r].wrote : ws[w[1]].tree[w[2]] = w[3]

\* C16: the history of a target grows only in an approve call on that target
\* which found staged changes, and then by one checkpoint.  (Stated as the
\* claim states it; the code violates it.)
C16_OnlyApproveAddsCheckpoint ==
    [][\A t \in Targets :
         ws'[t].commits # ws[t].commits
         => /\ lastApi'.op = "approve" /\ lastApi'.language = t /\ lastApi'.done
            /\ StagedNames(ws[t]) # {}
            /\ ws'[t].commits = ws[t].commits + 1]_vars

\* C17: when a run that was not cancelled terminates, and no save-file
\* request wrote to the specification after the run staged it, the
\* specification's stage equals its last checkpoint and its working tree
\* equals its stage; and the history of a specification that has one grows
\* only in a step that found it different from its last checkpoint.
C17_SpecificationCheckpointed ==
    [][/\ \A r \in Runs :
            (Settling(r)' /\ run'[r].outcome = "fulfilled" /\ ~run'[r].aborted
                /\ ~run'[r].specTouched)
            => /\ ws'[English].index = ws'[English].head
               /\ ws'[English].tree = ws'[English].index
       /\ (ws[English].git /\ ws'[English].commits # ws[English].commits)
            => \/ ws[English].tree # ws[English].head
               \/ ws[English].index # ws[English].head]_vars

\* a run terminates having committed, on top of the initial checkpoint, the
\* content a save-file request put into the specification during the run
C17_Witness ==
    \E r \in Runs :
        /\ Settling(r) /\ run[r].outcome = "fulfilled" /\ ~run[r].aborted
        /\ ~run[r].specTouched /\ English \in run[r].touched
        /\ ws[English].commits = 2
        /\ ws[English].head["a.txt"] = UserContent


\* The request just served lacks a field or names no recognized language
\* (index.js:504-517, 729-742, 606-618).
InvalidRequest(api) ==
    \/ api.op \in {"approve", "reject"} /\ api.language \notin Targets
    \/ api.op = "save-file"
         /\ (api.language \notin Workspaces \/ api.filePath = NoPath)

\* The request just served is an approve or reject on a recognized target
\* whose folder did not exist.
AbsentFolder(api) ==
    /\ api.op \in {"approve", "reject"}
    /\ api.language \in Targets
    /\ ~api.pre[api.language].exists

\* C18: an approve, reject or save-file request with a missing field or an
\* unrecognized language, and an approve or reject on a target whose folder
\* is absent, is answered 400 in a step that changes no workspace, nothing
\* outside them, neither pointer, and not updateProgress.
C18_InvalidRequestChangesNothing ==
    [][(InvalidRequest(lastApi') \/ AbsentFolder(lastApi'))
         => /\ lastApi'.status = 400 /\ ~lastApi'.done
            /\ UNCHANGED <<ws, outside, currentUpdateController,
                           currentUpdatePromise, updateProgress>>]_vars

\* a reject on a recognized target whose folder does not exist yet, served
\* while a run is in flight and answered 400
C18_Witness ==
    /\ AbsentFolder(lastApi) /\ lastApi.op = "reject" /\ lastApi.status = 400
    /\ \E r \in Runs : InFlight(r) /\ currentUpdateController = r

\* C19: approve on a target whose repository has nothing staged answers 200
\* with nothing committed and leaves the target's history, last checkpoint
\* and stage, and every other workspace, as they were.
C19_ApproveNothingStaged ==
    (lastApi.op = "approve" /\ lastApi.language \in Targets
        /\ lastApi.pre[lastApi.language].exists
        /\ lastApi.pre[lastApi.language].git
        /\ StagedNames(lastApi.pre[lastApi.language]) = {})
    => LET t == lastApi.language
           before == lastApi.pre[t]
       IN /\ lastApi.status = 200 /\ ~lastApi.done
          /\ ws[t].commits = before.commits
          /\ ws[t].head = before.head
          /\ ws[t].index = before.index
          /\ \A w \in Workspaces \ {t} : ws[w] = lastApi.pre[w]

\* such an approve, served on a repository with a checkpoint and an unstaged
\* edit
C19_Witness ==
    /\ lastApi.op = "approve" /\ lastApi.language \in Targets
    /\ lastApi.status = 200 /\ ~lastApi.done
    /\ LET before == lastApi.pre[lastApi.language] IN
       /\ before.git /\ before.commits > 0
       /\ before.tree # before.index

\* C20: after a save-file request answered 200 whose path lies in the
\* addressed workspace, the saved content is in that workspace's stage and
\* the stage equals the working tree.  (Stated as the claim states it; the
\* code violates it.)
C20_SavedFileIsStaged ==
    (lastApi.op = "save-file" /\ lastApi.status = 200
        /\ InWorkspace(pathJoin(basePath(lastApi.language), lastApi.filePath),
                       lastApi.language))
    => LET t == lastApi.language
           full == pathJoin(basePath(t), lastApi.filePath)
       IN /\ ws[t].index[full[Len(full)]] = UserContent
          /\ ws[t].index = ws[t].tree


\* C21: no approve, reject or save-file request changes a target workspace
\* in a step taken while a call of processUpdate is in flight.  (Stated as
\* the claim states it; the code violates it.)
C21_NoStoreMutationDuringRun ==
    [][\A t \in Targets :
         (lastApi'.op \in {"approve", "reject", "save-file"} /\ ws'[t] # ws[t])
         => \A r \in Runs : ~InFlight(r)]_vars


\* ---------------------------------------------------------------------
\* getLanguageGitStatus (src/pro-sdk/lib/fileSystem.ts): the status report
\* of one workspace, computed from the text `git status --porcelain` prints.
\* Text is a sequence of one-character strings.
\* ---------------------------------------------------------------------

NumStatusPaths == 2

PathLetters == <<"a", "b", "c", "d", "e", "f">>

\* the paths of the workspace, in git's order: "ax", "bx", ...
StatusPaths ==
    [i \in 1..NumStatusPaths |-> <<PathLetters[((i - 1) % Len(PathLetters)) + 1], "x">>]

OldName == <<"o">>

Arrow == <<" ", "-", ">", " ">>

Clean == <<>>

Untracked == <<"?", "?">>

\* the XY codes of one path: X is the index against HEAD, Y the working
\* tree against the index
StatusCodes ==
    { <<" ", "M">>, <<" ", "D">>, <<"M", " ">>, <<"M", "M">>, <<"A", " ">>,
      <<"A", "M">>, <<"D", " ">>, <<"R", " ">>, <<"C", " ">>, <<"T", " ">>,
      <<"U", "U">>, <<"A", "A">>, Untracked }

StatusInputs == [1..NumStatusPaths -> StatusCodes \cup {Clean}]

\* one line of git's output: XY, a space, the path ("old -> new" for a
\* rename or a copy), a line feed
PorcelainLine(code, path) ==
    <<code[1], code[2], " ">>
      \o (IF code[1] \in {"R", "C"} THEN OldName \o Arrow \o path ELSE path)
      \o <<"\n">>

RECURSIVE PorcelainFrom(_, _, _)
PorcelainFrom(files, i, untracked) ==
    IF i > NumStatusPaths THEN <<>>
    ELSE (IF files[i] # Clean /\ ((files[i] = Untracked) <=> untracked)
            THEN PorcelainLine(files[i], StatusPaths[i]) ELSE <<>>)
         \o PorcelainFrom(files, i + 1, untracked)

\* git prints the changed tracked paths in path order, then the untracked
Porcelain(files) == PorcelainFrom(files, 1, FALSE) \o PorcelainFrom(files, 1, TRUE)

IsSpace(c) == c \in {" ", "\n", "\t", "\r"}

RECURSIVE trimStart(_)
trimStart(text) ==
    IF text # <<>> /\ IsSpace(Head(text)) THEN trimStart(Tail(text)) ELSE text

RECURSIVE trimEnd(_)
trimEnd(text) ==
    IF text # <<>> /\ IsSpace(text[Len(text)])
      THEN trimEnd(SubSeq(text, 1, Len(text) - 1)) ELSE text

trim(text) == trimEnd(trimStart(text))

RECURSIVE split(_)
split(text) ==
    LET feeds == {i \in 1..Len(text) : text[i] = "\n"}
    IN  IF feeds = {} THEN <<text>>
        ELSE LET i == CHOOSE j \in feeds : \A k \in feeds : j <= k
             IN  <<SubSeq(text, 1, i - 1)>> \o split(SubSeq(text, i + 1, Len(text)))

LastSegment(filePath) ==
    LET at == {i \in 1..(Len(filePath) - 3) : SubSeq(filePath, i, i + 3) = Arrow}
    IN  IF at = {} THEN filePath
        ELSE LET i == CHOOSE j \in at : \A k \in at : j >= k
             IN  SubSeq(filePath, i + 4, Len(filePath))

STAGED_STATUS_MAP ==
    [c \in {"A", "M", "D", "R", "C", "U", "T"} |->
       CASE c = "A" -> "added"
         [] c = "M" -> "modified"
         [] c = "D" -> "deleted"
         [] c = "R" -> "renamed"
         [] c = "C" -> "copied"
         [] c = "U" -> "conflict"
         [] c = "T" -> "modified"]

mapStageCode(code) ==
    IF code \in DOMAIN STAGED_STATUS_MAP THEN STAGED_STATUS_MAP[code] ELSE "modified"

\* stagedFiles[filePath] = state
Assign(stagedFiles, filePath, state) ==
    {e \in stagedFiles : e[1] # filePath} \cup {<<filePath, state>>}

StatusLine(acc, rawLine) ==
    IF Len(rawLine) < 3 THEN acc
    ELSE LET stageCode    == rawLine[1]
             workTreeCode == rawLine[2]
             sliced       == trim(SubSeq(rawLine, 4, Len(rawLine)))
             filePath     == LastSegment(sliced)
             staged       == stageCode # " " /\ stageCode # "?"
             conflict     == stageCode = "U" \/ workTreeCode = "U"
             files1       == IF staged
                               THEN Assign(acc.stagedFiles, filePath, mapStageCode(stageCode))
                               ELSE acc.stagedFiles
         IN  IF stageCode = "?" /\ workTreeCode = "?"
               THEN [acc EXCEPT !.hasUnstagedChanges = TRUE]
               ELSE [stagedFiles |-> IF conflict THEN Assign(files1, filePath, "conflict")
                                                 ELSE files1,
                     hasStagedChanges |-> acc.hasStagedChanges \/ staged \/ conflict,
                     hasUnstagedChanges |->
                         acc.hasUnstagedChanges
                           \/ (workTreeCode # " " /\ workTreeCode # "?")]

RECURSIVE StatusLines(_, _)
StatusLines(acc, lines) ==
    IF lines = <<>> THEN acc
    ELSE StatusLines(StatusLine(acc, Head(lines)), Tail(lines))

getLanguageGitStatus(exists, stdout) ==
    IF ~exists THEN initial
    ELSE LET trimmed == trim(stdout)
         IN  IF trimmed = <<>> THEN initial
             ELSE StatusLines(initial, split(trimmed))

SomeStatusCall ==
    {[exists |-> e, files |-> f, stdout |-> IF e THEN Porcelain(f) ELSE <<>>,
      done |-> FALSE, result |-> initial] :
       e \in BOOLEAN, f \in StatusInputs}

InitStatus ==
    /\ currentUpdateController = NoRun
    /\ currentUpdatePromise = NoRun
    /\ updateProgress = InitialProgress
    /\ run = [r \in Runs |-> IdleRun]
    /\ waiters = [r \in Runs |-> <<>>]
    /\ microtasks = <<>>
    /\ nextRun = 1
    /\ ws = [w \in Workspaces |-> NoWorkspace]
    /\ outside = {}
    /\ lastApi = NoApi
    /\ apiCalls = 0
    /\ statusCall \in {c \in SomeStatusCall : c.exists \/ \A i \in 1..NumStatusPaths : c.files[i] = Clean}

GetStatus ==
    /\ ~statusCall.done
    /\ statusCall' = [statusCall EXCEPT
                        !.done = TRUE,
                        !.result = getLanguageGitStatus(statusCall.exists, statusCall.stdout)]
    /\ UNCHANGED <<currentUpdateController, currentUpdatePromise, updateProgress,
                   run, waiters, microtasks, nextRun, ws, outside, lastApi, apiCalls>>

NextStatus == GetStatus

SpecStatus == InitStatus /\ [][NextStatus]_vars

\* What the report of a workspace in state `files` is to be, path by path.
Conflicted(code) == code \in {<<"U", "U">>, <<"A", "A">>}

StagedCode(code) ==
    code # Clean /\ code # Untracked /\ (code[1] # " " \/ Conflicted(code))

UnstagedCode(code) == code # Clean /\ code[2] # " "

StateOf(code) == IF Conflicted(code) THEN "conflict" ELSE mapStageCode(code[1])

\* C22: for every combination of per-file index and working-tree states,
\* the report has hasStagedChanges exactly when some path is staged or in
\* conflict, hasUnstagedChanges exactly when some path has a working-tree
\* change or is untracked, and stagedFiles maps exactly the staged paths, by
\* their real path, to their state.  (Stated as the claim states it; the
\* code violates it.)
C22_StatusReportExact ==
    (statusCall.done /\ statusCall.exists) =>
      LET files == statusCall.files
          P == 1..NumStatusPaths
      IN  /\ statusCall.result.hasStagedChanges <=> \E i \in P : StagedCode(files[i])
          /\ statusCall.result.hasUnstagedChanges <=> \E i \in P : UnstagedCode(files[i])
          /\ statusCall.result.stagedFiles
               = {<<StatusPaths[i], StateOf(files[i])>> : i \in {j \in P : StagedCode(files[j])}}


\* C23: the existing files a run reads for a target and passes to algo are
\* the content of that target's last commit.  (Stated as the claim states
\* it; the code violates it.)
C23_ExistingIsLastCheckpoint ==
    [][\A r \in Runs :
         (run[r].pc = "readLang" /\ run'[r].pc = "algo")
         => run'[r].existing = ws[LANGUAGES[run[r].i]].head]_vars


UntrackedFiles(w) == {f \in Files : w.index[f] = Absent /\ w.tree[f] # Absent}

\* C24: the reset of a target before a run, and the revert of the processed
\* targets of a cancelled run, leave the target's folder without untracked
\* files, whether `git checkout -- .` succeeded or not.  (Stated as the claim
\* states it; the code violates it.)
C24_ResetAndRevertCleanUntracked ==
    [][\A r \in Runs :
         /\ (run[r].pc = "prep" /\ (run'[r].pc # "prep" \/ run'[r].i # run[r].i))
              => UntrackedFiles(ws'[LANGUAGES[run[r].i]]) = {}
         /\ (run[r].pc \in {"revert", "revertCatch"} /\ run'[r].pc # run[r].pc)
              => \A k \in 1..Len(run[r].processed) :
                    UntrackedFiles(ws'[run[r].processed[k]]) = {}]_vars


\* A step of the processUpdate call of run r.
PipelineStepOf(r) ==
    InFlight(r) /\ (run'[r].pc # run[r].pc \/ run'[r].i # run[r].i)

\* C25: once a request to /update has aborted run r and written progress for
\* the run that supersedes it, no step of r's processUpdate writes progress.
\* (Stated as the claim states it; the code violates it.)
C25_SupersededPipelineSilent ==
    [][\A r \in Runs :
         (run[r].aborted /\ PipelineStepOf(r)) => updateProgress' = updateProgress]_vars


\* C26: every call of processUpdate still in flight belongs to the run
\* recorded in currentUpdateController or has had its signal aborted.
\* (Stated as the claim states it; the code violates it.)
C26_InFlightIsCurrentOrAborted ==
    \A r \in Runs : InFlight(r) => (currentUpdateController = r \/ run[r].aborted)


\* C27: when progress reports isRunning = FALSE and currentUpdateController
\* is null, no call of processUpdate is in flight.  (Stated as the claim
\* states it; the code violates it.)
C27_IdleMeansNoPipeline ==
    (~updateProgress.isRunning /\ currentUpdateController = NoRun)
    => \A r \in Runs : ~InFlight(r)


\* C28: the content a run commits in the english folder is the content of
\* englishFiles, which the same run read and passed to algo.  (Stated as the
\* claim states it; the code violates it.)
C28_CommittedSpecIsSnapshot ==
    [][\A r \in Runs :
         (run[r].pc = "commitEnglish" /\ run'[r].pc = "done"
            /\ ws'[English].commits # ws[English].commits)
         => ws'[English].head = run[r].englishFiles]_vars


\* The orchestrator under the scheduling of the event loop: a queued promise
\* reaction runs, and every awaited file, git or algo call returns, so while
\* a reaction is queued or a processUpdate call is suspended at an await the
\* server does not stand still.  No request to /update is ever required.
Resumption == Microtask \/ \E r \in Runs : PipelineStep(r)

\* The last request admitted arrives while no processUpdate call is past its
\* first await; the earlier ones arrive at any moment.
StartLiveUpdate ==
    /\ nextRun = MaxRuns => \A r \in Runs : InFlight(r) => run[r].pc = "ensure"
    /\ StartUpdate

NextLive ==
    \/ StartLiveUpdate
    \/ Microtask
    \/ \E r \in Runs : PipelineStep(r)

SpecLive == Init /\ [][NextLive]_vars /\ WF_vars(Resumption)

Idle ==
    /\ \A r \in Runs : ~InFlight(r)
    /\ microtasks = <<>>
    /\ ~updateProgress.isRunning
    /\ currentUpdateController = NoRun

CancelPath == {"revert", "revertCatch", "done"}

\* C30: when the signal of run r is aborted while its algo call for target T
\* is in flight, the call runs to its end, the step that follows it drops
\* the result and leaves every folder as it was, and from there the run only
\* reverts the targets it had processed: it reads, generates and writes no
\* further target, and T's folder is never written.
C30_AbortDuringAlgoStopsRun ==
    [][\A r \in Runs :
         LET cancelled == run[r].aborted /\ run[r].abortedAt = "algo"
             T == LANGUAGES[run[r].i]
         IN  /\ (cancelled /\ run[r].pc = "algo")
                  => /\ run'[r].pc \in {"algo"} \cup CancelPath
                     /\ run'[r].result = EmptyTree
                     /\ run'[r].processed = run[r].processed
                     /\ PipelineStepOf(r) => ws' = ws
             /\ (cancelled /\ run[r].pc \in CancelPath)
                  => /\ run'[r].pc \in CancelPath
                     /\ run'[r].wrote = {} \/ run'[r].wrote = run[r].wrote
                     /\ PipelineStepOf(r)
                          => \A t \in Targets \ Processed(r) : ws'[t] = ws[t]]_vars

C30_Witness ==
    \E r \in Runs :
        /\ run[r].aborted
        /\ run[r].abortedAt = "algo"
        /\ run[r].pc = "revert"
        /\ run[r].processed # <<>>
        /\ LANGUAGES[run[r].i] \notin Processed(r)
        /\ currentUpdateController = r


\* C31: every algo call of a run is given the same english files, those the
\* run read once before its first target (index.js:308); nothing a request
\* does to the english folder while the run is in flight changes them.
C31_OneSpecSnapshotPerRun ==
    [][\A r \in Runs :
         /\ \A g \in run'[r].englishGiven : g[2] = run'[r].englishFiles
         /\ \A g \in run[r].englishGiven : run'[r].pc # "done" => g \in run'[r].englishGiven
         /\ (InFlight(r) /\ run[r].pc # "readEnglish" /\ run'[r].pc # "done")
              => run'[r].englishFiles = run[r].englishFiles]_vars

C31_Witness ==
    \E r \in Runs :
        /\ InFlight(r)
        /\ {g[1] : g \in run[r].englishGiven} = Targets
        /\ \A g \in run[r].englishGiven : g[2] # ws[English].tree
        /\ lastApi.op = "save-file"


\* Position of target l in the declaration order of LANGUAGES.
IndexOf(l) == CHOOSE k \in 1..NumLanguages : LANGUAGES[k] = l

\* C32: at every point of a run, processedLanguages lists, in declaration
\* order, targets for which algo produced generated files that have been
\* written; a target whose generation failed is never in it.  (Stated as the
\* claim states it; the code violates it.)
C32_ProcessedAreGenerated ==
    \A r \in Runs :
        LET p == run[r].processed IN
        /\ \A j, k \in 1..Len(p) : j < k => IndexOf(p[j]) < IndexOf(p[k])
        /\ \A k \in 1..Len(p) : p[k] \notin run[r].failed


\* What staging and committing change in a workspace.
Checkpoints(w) == [index |-> w.index, head |-> w.head, commits |-> w.commits]

\* C33: a run whose signal was aborted before it reached the staging block
\* (index.js:378) changes the index and the history of no workspace: it
\* stages nothing and commits nothing.  (Stated as the claim states it; the
\* code violates it.)
C33_CancelledRunStagesNothing ==
    [][\A r \in Runs :
         (run[r].aborted /\ ~run[r].staged /\ PipelineStepOf(r))
         => \A w \in Workspaces : Checkpoints(ws'[w]) = Checkpoints(ws[w])]_vars


\* The step in which the setup of run r fails ends the run: algo was not
\* called, no target file was written, and the promise is rejected.
SetupFailureEndsRun(r) ==
    (~run[r].setupFailed /\ run'[r].setupFailed)
    => /\ run[r].englishGiven = {} /\ run[r].wrote = {} /\ run[r].processed = <<>>
       /\ run'[r].wrote = {} /\ run'[r].processed = <<>>
       /\ run'[r].pc = "done"
       /\ run'[r].outcome \in {"failed", "cancelled"}

\* C34 as claimed: when ensureFilesFolder fails in a run, the run ends before
\* any algo call and any write of a target file, and when its last reaction
\* has run progress has error set and isRunning FALSE.
C34_SetupFailureSetsError ==
    [][\A r \in Runs :
         /\ SetupFailureEndsRun(r)
         /\ (run[r].setupFailed /\ Reacting("finally", r))
              => /\ ~updateProgress'.isRunning
                 /\ updateProgress'.error # "null"]_vars

\* C34, amended: when ensureFilesFolder fails in a run, the run ends before
\* any algo call and any write of a target file; and if the run is still the
\* one currentUpdateController points to when its .catch() runs, progress
\* gets error set and isRunning FALSE and keeps them through its .finally().
C34_SetupFailureSetsErrorIfCurrent ==
    [][\A r \in Runs :
         /\ SetupFailureEndsRun(r)
         /\ (run[r].setupFailed /\ currentUpdateController = r)
              => /\ Reacting("catch", r)
                      => /\ ~updateProgress'.isRunning
                         /\ updateProgress'.error # "null"
                 /\ Reacting("finally", r)
                      => /\ ~updateProgress'.isRunning
                         /\ updateProgress'.error # "null"]_vars

C34_Witness ==
    \E r \in Runs :
        /\ run[r].setupFailed
        /\ run[r].outcome = "failed"
        /\ Reacting("finally", r)
        /\ currentUpdateController = r
        /\ updateProgress.error = "failed" /\ ~updateProgress.isRunning


\* The positions of processUpdate inside the loop over LANGUAGES
\* (index.js:316-373): reading the target, awaiting algo, writing.
LoopPcs == {"readLang", "algo", "write"}

\* C35: within a run, the loop takes the targets one at a time in the order
\* of LANGUAGES: it enters at the first target, goes through read, algo and
\* write of target i, and starts on target i+1 only from the end of the
\* write, or from the return of algo when nothing is written; a step of the
\* run changes the files of the target being written and of no other.
C35_TargetsInDeclarationOrder ==
    [][\A r \in Runs :
         /\ run'[r].pc \in LoopPcs
              => IF run[r].pc \in LoopPcs
                 THEN \/ /\ run'[r].i = run[r].i
                         /\ <<run[r].pc, run'[r].pc>> \in
                              {<<"readLang", "readLang">>, <<"readLang", "algo">>,
                               <<"algo", "algo">>, <<"algo", "write">>,
                               <<"write", "write">>}
                      \/ /\ run'[r].i = run[r].i + 1
                         /\ run[r].pc \in {"algo", "write"}
                         /\ run'[r].pc = "readLang"
                 ELSE run[r].pc = "readEnglish" /\ run'[r].pc = "readLang" /\ run'[r].i = 1
         /\ (run[r].pc \in LoopPcs /\ PipelineStepOf(r))
              => \A t \in Targets :
                    ws'[t] # ws[t] => (run[r].pc = "write" /\ t = LANGUAGES[run[r].i])
         /\ \A e \in run'[r].wrote :
               run'[r].pc \in LoopPcs => IndexOf(e[1]) <= run'[r].i]_vars

C35_Witness ==
    \E r \in Runs :
        /\ run[r].pc = "write"
        /\ run[r].i = NumLanguages
        /\ \A k \in 1..(NumLanguages - 1) : LANGUAGES[k] \in Processed(r)
        /\ \A k \in 1..(NumLanguages - 1) : \E e \in run[r].wrote : e[1] = LANGUAGES[k]
        /\ \A e \in run[r].wrote : e[1] # LANGUAGES[NumLanguages]

====
